---------------------------- MODULE Spec2Model ----------------------------
(***************************************************************************)
(* Model of src/widget.rs of tui-textarea: the Viewport state (one         *)
(* AtomicU64 holding four u16 fields) and its clone, the scroll rules      *)
(* next_scroll_top and next_scroll_row_wrapped, and TextArea's render.     *)
(*                                                                         *)
(* Integers keep the width they have in the source.  u16 arithmetic        *)
(* written with + - * in the source panics on overflow in a build with     *)
(* overflow checks (the dev profile) and wraps modulo 2^16 in a build      *)
(* without them (the release profile); the variable overflow_checks        *)
(* is the build's choice and every operation models both outcomes.         *)
(***************************************************************************)
EXTENDS Integers, Sequences, FiniteSets, TLC

VARIABLES
    overflow_checks,  \* TRUE: arithmetic overflow panics; FALSE: it wraps
    vp,               \* Viewport.0, the AtomicU64, as four 16-bit limbs
    call,             \* the last call made and its outcome
    ta,               \* the TextArea fields render reads
    rd,               \* concurrent readers of the viewport
    written,          \* the atomic stores made, in modification order: all of
                      \* them in SpecConc, those of the last call in Spec
    cloned            \* the Viewport made by clone(), if any

vars == <<overflow_checks, vp, call, ta, rd, written, cloned>>

---------------------------------------------------------------------------
(* Machine integers *)

U16Max == 65535
U16Mod == 65536
I16Min == -32768
I16Max == 32767

\* Bounds of the input sets.
MaxSmall == 3
HighSpan == 2

\* u16 inputs: the small values, the values of the spec's scenarios, and the
\* values next to u16::MAX.
U16Samples == (0..MaxSmall) \cup {5, 10, 12} \cup ((U16Max - HighSpan)..U16Max)

Min(a, b) == IF a <= b THEN a ELSE b
Max(a, b) == IF a >= b THEN a ELSE b

\* x as u16: truncation to the low 16 bits (two's complement for x < 0).
AsU16(x) == x % U16Mod

\* An operand pair of u16 + - * leaves the range.
Overflows(x) == x < 0 \/ x > U16Max

saturating_add(a, b) == Min(a + b, U16Max)
saturating_sub(a, b) == Max(a - b, 0)

\* An outcome: <<v>> when the call returned v, << >> when it panicked.
Returned(v) == <<v>>
Panicked == << >>
Outcome(panics, v) == IF panics THEN Panicked ELSE Returned(v)

---------------------------------------------------------------------------
(* next_scroll_top: the unwrapped rule, in u16 *)

\* The value returned when no overflow check stops the call.
next_scroll_top(prev_top, cursor, len) ==
    IF cursor < prev_top THEN cursor
    ELSE IF AsU16(prev_top + len) <= cursor
         THEN AsU16(AsU16(cursor + 1) - len)
         ELSE prev_top

\* The call hits an overflow check: prev_top + len, cursor + 1, or - len.
next_scroll_top_panics(prev_top, cursor, len) ==
    /\ ~(cursor < prev_top)
    /\ \/ Overflows(prev_top + len)
       \/ /\ prev_top + len <= cursor
          /\ (Overflows(cursor + 1) \/ Overflows(cursor + 1 - len))


---------------------------------------------------------------------------
(* u64 words.  A word is its four 16-bit limbs, limb 1 holding bits 0-15   *)
(* and limb 4 bits 48-63; shifts are by whole limbs, as in the source.     *)

LimbBits == 16
Limbs == 4

RECURSIVE BitOr16(_, _)
BitOr16(a, b) ==
    IF a = 0 THEN b
    ELSE IF b = 0 THEN a
    ELSE Max(a % 2, b % 2) + 2 * BitOr16(a \div 2, b \div 2)

RECURSIVE BitAnd16(_, _)
BitAnd16(a, b) ==
    IF a = 0 \/ b = 0 THEN 0
    ELSE Min(a % 2, b % 2) + 2 * BitAnd16(a \div 2, b \div 2)

\* x as u64, for a u16 x
AsU64(x) == [i \in 1..Limbs |-> IF i = 1 THEN x ELSE 0]

\* u << bits and u >> bits, bits a multiple of 16
Shl(u, bits) ==
    LET k == bits \div LimbBits
    IN  [i \in 1..Limbs |-> IF i - k >= 1 THEN u[i - k] ELSE 0]
Shr(u, bits) ==
    LET k == bits \div LimbBits
    IN  [i \in 1..Limbs |-> IF i + k <= Limbs THEN u[i + k] ELSE 0]

BitOr(u, v) == [i \in 1..Limbs |-> BitOr16(u[i], v[i])]
BitAnd(u, v) == [i \in 1..Limbs |-> BitAnd16(u[i], v[i])]

\* u as u16: the low 16 bits
U64AsU16(u) == u[1]

\* 0xffff_ffff_0000_0000
HighMask == <<0, 0, U16Max, U16Max>>

---------------------------------------------------------------------------
(* Viewport *)

\* Viewport::default()
ViewportDefault == AsU64(0)

\* store with the height shifted by 16 instead of 32, onto the row.
store_height_on_row(row, col, width, height) ==
    BitOr(BitOr(BitOr(Shl(AsU64(width), 48), Shl(AsU64(height), 16)),
                Shl(AsU64(row), 16)),
          AsU64(col))

\* The word Viewport::store writes.
store(row, col, width, height) ==
    BitOr(BitOr(BitOr(Shl(AsU64(width), 48), Shl(AsU64(height), 32)),
                Shl(AsU64(row), 16)),
          AsU64(col))

scroll_top(u) == <<U64AsU16(Shr(u, 16)), U64AsU16(u)>>

rect(u) ==
    LET width == U64AsU16(Shr(u, 48))
        height == U64AsU16(Shr(u, 32))
        row == U64AsU16(Shr(u, 16))
        col == U64AsU16(u)
    IN  <<row, col, width, height>>

position(u) ==
    LET r == rect(u)
        row_top == r[1]
        col_top == r[2]
        width == r[3]
        height == r[4]
        row_bottom == saturating_sub(saturating_add(row_top, height), 1)
        col_bottom == saturating_sub(saturating_add(col_top, width), 1)
    IN  <<row_top, col_top, Max(row_top, row_bottom), Max(col_top, col_bottom)>>

\* -delta in i16 without an overflow check: i16::MIN negates to itself.
WrappingNegI16(delta) == IF delta = I16Min THEN I16Min ELSE 0 - delta

apply_scroll(pos, delta) ==
    IF delta >= 0
    THEN saturating_add(pos, AsU16(delta))
    ELSE saturating_sub(pos, AsU16(WrappingNegI16(delta)))

\* -delta overflows i16 exactly for i16::MIN.
apply_scroll_panics(pos, delta) == delta < 0 /\ 0 - delta > I16Max

\* The word Viewport::scroll leaves.
scroll(u, rows, cols) ==
    LET row == apply_scroll(U64AsU16(Shr(u, 16)), rows)
        col == apply_scroll(U64AsU16(u), cols)
    IN  BitOr(BitOr(BitAnd(u, HighMask), Shl(AsU64(row), 16)), AsU64(col))

scroll_panics(u, rows, cols) ==
    \/ apply_scroll_panics(U64AsU16(Shr(u, 16)), rows)
    \/ apply_scroll_panics(U64AsU16(u), cols)

---------------------------------------------------------------------------
(* next_scroll_row_wrapped: the wrapped rule.  wrapped_rows is a Vec<u16>, *)
(* line k of the buffer at index k + 1 of the sequence.                    *)

\* s[a..b] of the source, 0-based and exclusive of b
Slice(s, a, b) == SubSeq(s, a + 1, b)

\* The sum as integers.
RECURSIVE SumNat(_)
SumNat(s) == IF s = << >> THEN 0 ELSE s[1] + SumNat(Tail(s))

\* iter().sum::<u16>() and the scan accumulator without an overflow check.
SumU16(s) == AsU16(SumNat(s))

\* next_scroll_row_wrapped without the final .min(cursor_row).
next_scroll_row_wrapped_uncapped(prev_top_row, cursor_row, viewport_height, wrapped_rows) ==
    IF cursor_row < prev_top_row THEN cursor_row
    ELSE
        LET between == Slice(wrapped_rows, prev_top_row, cursor_row)
            rows_from_top_to_cursor == AsU16(SumU16(between) + 1)
            cursor_row_wraps == AsU16(wrapped_rows[cursor_row + 1] - 1)
            total == AsU16(rows_from_top_to_cursor + cursor_row_wraps)
            cursor_line_on_screen == total <= viewport_height
            rows_to_move == saturating_sub(total, viewport_height)
            found == {i \in 0..(Len(between) - 1) :
                         SumU16(SubSeq(between, 1, i + 1)) >= rows_to_move}
            index == IF found = {} THEN 0
                     ELSE CHOOSE i \in found : \A j \in found : i <= j
            lines_to_move == AsU16(index + 1)
        IN  IF ~cursor_line_on_screen
            THEN AsU16(prev_top_row + lines_to_move)
            ELSE prev_top_row

next_scroll_row_wrapped(prev_top_row, cursor_row, viewport_height, wrapped_rows) ==
    IF cursor_row < prev_top_row THEN cursor_row
    ELSE
        LET between == Slice(wrapped_rows, prev_top_row, cursor_row)
            rows_from_top_to_cursor == AsU16(SumU16(between) + 1)
            cursor_row_wraps == AsU16(wrapped_rows[cursor_row + 1] - 1)
            total == AsU16(rows_from_top_to_cursor + cursor_row_wraps)
            cursor_line_on_screen == total <= viewport_height
            rows_to_move == saturating_sub(total, viewport_height)
            found == {i \in 0..(Len(between) - 1) :
                         SumU16(SubSeq(between, 1, i + 1)) >= rows_to_move}
            index == IF found = {} THEN 0
                     ELSE CHOOSE i \in found : \A j \in found : i <= j
            lines_to_move == AsU16(index + 1)
        IN  IF ~cursor_line_on_screen
            THEN Min(AsU16(prev_top_row + lines_to_move), cursor_row)
            ELSE prev_top_row

\* The slice or the index is out of range: a panic in every build.
next_scroll_row_wrapped_index_panics(prev_top_row, cursor_row, wrapped_rows) ==
    /\ ~(cursor_row < prev_top_row)
    /\ cursor_row >= Len(wrapped_rows)

\* A sum, the + 1, the - 1 or the total hits an overflow check, or, the
\* cursor's line being off-screen, prev_top_row + lines_to_move does.  (The
\* index is below the length of the slice, so index + 1 stays a u16.)
next_scroll_row_wrapped_panics(prev_top_row, cursor_row, viewport_height, wrapped_rows) ==
    /\ ~(cursor_row < prev_top_row)
    /\ cursor_row < Len(wrapped_rows)
    /\ LET between == Slice(wrapped_rows, prev_top_row, cursor_row)
           total == SumNat(between) + 1 + wrapped_rows[cursor_row + 1] - 1
           rows_to_move == saturating_sub(total, viewport_height)
           found == {i \in 0..(Len(between) - 1) :
                        SumNat(SubSeq(between, 1, i + 1)) >= rows_to_move}
           index == IF found = {} THEN 0
                    ELSE CHOOSE i \in found : \A j \in found : i <= j
           lines_to_move == index + 1
       IN  \/ Overflows(SumNat(between) + 1)
           \/ Overflows(wrapped_rows[cursor_row + 1] - 1)
           \/ Overflows(total)
           \/ /\ total > viewport_height
              /\ Overflows(prev_top_row + lines_to_move)


---------------------------------------------------------------------------
(* State outside the part a specification exercises *)

\* A call: pending until its action runs, then done with its outcome.
NoCall == [op |-> "none", args |-> << >>, pc |-> "done", out |-> Panicked]
Pending(op, args) == [op |-> op, args |-> args, pc |-> "pending", out |-> Panicked]
Done(c, out) == [c EXCEPT !.pc = "done", !.out = out]

\* No block is set: self.block() is None.
NoBlock == << >>

TextAreaDefault ==
    [cursor |-> <<0, 0>>, rows |-> <<1>>, wrap |-> FALSE, lnum |-> FALSE,
     width |-> 0, height |-> 0, block |-> NoBlock, placeholder |-> FALSE,
     empty |-> TRUE]

NoReaders == << >>

\* No clone of the viewport has been made.
NoClone == [cell |-> "none", u |-> AsU64(0)]

---------------------------------------------------------------------------
(* SpecScroll: the two scroll rules called on inputs from the input sets *)

MaxLines == 3
MaxRows == 3
MaxHeight == 3

\* Row counts line_rows can report: each at least 1.
RowSamples == (1..MaxRows) \cup {U16Max}

\* The sequences of n entries of S.
SeqsOfLen(S, n) == [1..n -> S]

\* The buffer of the specification's wrapped scenarios.
ScenarioRows == <<1, 3, 1, 1>>

RowSeqs == UNION {SeqsOfLen(RowSamples, n) : n \in 1..MaxLines} \cup {ScenarioRows}

\* The longest buffer a u16 cursor row can address to its end: 65536 lines,
\* the last one wrapping once.
LongRows == [i \in 1..U16Mod |-> IF i = U16Mod THEN 2 ELSE 1]

HeightSamples == (0..MaxHeight) \cup {U16Max}
TopSamples == (0..MaxLines) \cup {U16Max}

\* SpecScroll makes one call: either rule on any input of the input sets, the
\* cursor row of the wrapped rule a line of the buffer; or the wrapped rule
\* with the top row and the cursor on the last line of the longest buffer.
InitScroll ==
    /\ overflow_checks \in BOOLEAN
    /\ vp = ViewportDefault
    /\ \/ \E prev_top \in U16Samples, cursor \in U16Samples, len \in U16Samples :
              call = Pending("next_scroll_top", <<prev_top, cursor, len>>)
       \/ \E wrapped_rows \in RowSeqs, prev_top_row \in TopSamples,
             viewport_height \in HeightSamples :
              \E cursor_row \in 0..(Len(wrapped_rows) - 1) :
                  call = Pending("next_scroll_row_wrapped",
                                 <<prev_top_row, cursor_row, viewport_height,
                                   wrapped_rows>>)
       \/ \E viewport_height \in HeightSamples :
              call = Pending("next_scroll_row_wrapped",
                             <<U16Max, U16Max, viewport_height, LongRows>>)
    /\ ta = TextAreaDefault
    /\ rd = NoReaders
    /\ written = << >>
    /\ cloned = NoClone

CallNextScrollTop ==
    /\ call.pc = "pending"
    /\ call.op = "next_scroll_top"
    /\ LET prev_top == call.args[1]
           cursor == call.args[2]
           len == call.args[3]
       IN  call' = Done(call,
                        Outcome(overflow_checks
                                  /\ next_scroll_top_panics(prev_top, cursor, len),
                                next_scroll_top(prev_top, cursor, len)))
    /\ UNCHANGED <<overflow_checks, vp, ta, rd, written, cloned>>

CallNextScrollRowWrapped ==
    /\ call.pc = "pending"
    /\ call.op = "next_scroll_row_wrapped"
    /\ LET prev_top_row == call.args[1]
           cursor_row == call.args[2]
           viewport_height == call.args[3]
           wrapped_rows == call.args[4]
       IN  call' = Done(call,
                        Outcome(
                            \/ next_scroll_row_wrapped_index_panics(
                                   prev_top_row, cursor_row, wrapped_rows)
                            \/ /\ overflow_checks
                               /\ next_scroll_row_wrapped_panics(
                                      prev_top_row, cursor_row, viewport_height,
                                      wrapped_rows),
                            next_scroll_row_wrapped(prev_top_row, cursor_row,
                                                    viewport_height, wrapped_rows)))
    /\ UNCHANGED <<overflow_checks, vp, ta, rd, written, cloned>>

NextScroll == CallNextScrollTop \/ CallNextScrollRowWrapped

SpecScroll == InitScroll /\ [][NextScroll]_vars


---------------------------------------------------------------------------
(* SpecViewport: one Viewport, written by store and scroll and read back   *)

MaxField == 2

\* Field values: the smallest and the largest u16.
FieldSamples == (0..MaxField) \cup ((U16Max - MaxField + 1)..U16Max)

\* Deltas of scroll: zero, one step either way, and both ends of i16.
DeltaSamples == {I16Min, 0 - 1, 0, 1, I16Max}

InitViewport ==
    /\ overflow_checks \in BOOLEAN
    /\ vp = ViewportDefault
    /\ call = NoCall
    /\ ta = TextAreaDefault
    /\ rd = NoReaders
    /\ written = << >>
    /\ cloned = NoClone

\* self.viewport.store(row, col, width, height) on the fresh viewport
Store ==
    /\ call.op = "none"
    /\ \E row \in FieldSamples, col \in FieldSamples,
          width \in FieldSamples, height \in FieldSamples :
           /\ vp' = store(row, col, width, height)
           /\ call' = [op |-> "store", args |-> <<row, col, width, height>>,
                       pc |-> "done", out |-> Returned(<< >>)]
    /\ UNCHANGED <<overflow_checks, ta, rd, written, cloned>>

\* viewport.scroll(rows, cols); args keep the word it started from
Scroll ==
    /\ call.op \in {"none", "store"}
    /\ \E rows \in DeltaSamples, cols \in DeltaSamples :
           LET c == [op |-> "scroll", args |-> <<rect(vp), rows, cols>>,
                     pc |-> "done", out |-> Panicked]
           IN  IF overflow_checks /\ scroll_panics(vp, rows, cols)
               THEN /\ call' = c
                    /\ vp' = vp
               ELSE /\ call' = [c EXCEPT !.out = Returned(<< >>)]
                    /\ vp' = scroll(vp, rows, cols)
    /\ UNCHANGED <<overflow_checks, ta, rd, written, cloned>>

\* A read right after a store or a scroll that returned; args keep that call.
CanRead == call.op \in {"store", "scroll"} /\ call.out # Panicked

ReadScrollTop ==
    /\ CanRead
    /\ call' = [op |-> "scroll_top", args |-> <<call.op, call.args>>,
                pc |-> "done", out |-> Returned(scroll_top(vp))]
    /\ UNCHANGED <<overflow_checks, vp, ta, rd, written, cloned>>

ReadRect ==
    /\ CanRead
    /\ call' = [op |-> "rect", args |-> <<call.op, call.args>>,
                pc |-> "done", out |-> Returned(rect(vp))]
    /\ UNCHANGED <<overflow_checks, vp, ta, rd, written, cloned>>

ReadPosition ==
    /\ CanRead
    /\ call' = [op |-> "position", args |-> <<call.op, call.args>>,
                pc |-> "done", out |-> Returned(position(vp))]
    /\ UNCHANGED <<overflow_checks, vp, ta, rd, written, cloned>>

NextViewport == Store \/ Scroll \/ ReadScrollTop \/ ReadRect \/ ReadPosition

SpecViewport == InitViewport /\ [][NextViewport]_vars

---------------------------------------------------------------------------
(* SpecConc: one writer calling store while readers call scroll_top, rect  *)
(* and position.  Each is one access to the AtomicU64 with                 *)
(* Ordering::Relaxed: a load returns a value of the modification order no  *)
(* older than the last one its thread has read.                            *)

MaxStores == 2

Readers == {"r1", "r2"}

\* The quadruples the writer stores.
ConcQuads == {<<0, 1, 2, 3>>, <<1, 2, 3, 0>>, <<U16Max, U16Max, U16Max, U16Max>>}

\* A write that replaces only the low 32 bits of the word.
atomic_store_low_half(old, u) == [i \in 1..Limbs |-> IF i <= 2 THEN u[i] ELSE old[i]]

\* self.0.store(u, Ordering::Relaxed): the whole word is replaced at once.
atomic_store(old, u) == u

\* The word at place i of the modification order, place 0 the initial value.
WordAt(i) == IF i = 0 THEN ViewportDefault ELSE written[i].u

ReaderIdle == [pc |-> "idle", op |-> "none", seen |-> 0, u |-> ViewportDefault,
               val |-> << >>]

InitConc ==
    /\ overflow_checks \in BOOLEAN
    /\ vp = ViewportDefault
    /\ call = NoCall
    /\ ta = TextAreaDefault
    /\ rd = [r \in Readers |-> ReaderIdle]
    /\ written = << >>
    /\ cloned = NoClone

\* The writer: Viewport::store
StoreConc ==
    /\ Len(written) < MaxStores
    /\ \E q \in ConcQuads :
           /\ vp' = atomic_store(vp, store(q[1], q[2], q[3], q[4]))
           /\ written' = Append(written, [q |-> q, u |-> vp'])
    /\ UNCHANGED <<overflow_checks, call, ta, rd, cloned>>

\* A reader: self.0.load(Ordering::Relaxed) at the start of op
ReaderLoad(r) ==
    /\ rd[r].pc \in {"idle", "returned"}
    /\ \E op \in {"scroll_top", "rect", "position"} :
       \E i \in rd[r].seen..Len(written) :
           rd' = [rd EXCEPT ![r] = [pc |-> "loaded", op |-> op, seen |-> i,
                                    u |-> WordAt(i), val |-> << >>]]
    /\ UNCHANGED <<overflow_checks, vp, call, ta, written, cloned>>

\* A reader: the rest of op, decoding the word it loaded
ReaderReturn(r) ==
    /\ rd[r].pc = "loaded"
    /\ rd' = [rd EXCEPT ![r].pc = "returned",
                        ![r].val = CASE rd[r].op = "scroll_top" -> scroll_top(rd[r].u)
                                     [] rd[r].op = "rect" -> rect(rd[r].u)
                                     [] rd[r].op = "position" -> position(rd[r].u)]
    /\ UNCHANGED <<overflow_checks, vp, call, ta, written, cloned>>

NextConc ==
    \/ StoreConc
    \/ \E r \in Readers : ReaderLoad(r)
    \/ \E r \in Readers : ReaderReturn(r)

SpecConc == InitConc /\ [][NextConc]_vars

---------------------------------------------------------------------------
(* TextArea::render.  ta holds what render reads of the TextArea and of    *)
(* its arguments: the cursor, the wrapped row count line_rows reports for  *)
(* each line at the current width (one entry per line), the wrap and       *)
(* line-number settings, the width and height of the area it is rendered   *)
(* into, the block set (its frame), whether a placeholder text is set and  *)
(* whether the buffer is empty.                                            *)

\* Some(block): a block whose frame takes `horizontal` columns and `vertical`
\* rows of the area.
SomeBlock(horizontal, vertical) ==
    <<[horizontal |-> horizontal, vertical |-> vertical]>>

\* Rect { width, height, .. }: of b.inner(area) when a block is set, what the
\* frame leaves of the area (nothing when the area is smaller), of area
\* otherwise.
inner(t) ==
    IF t.block # NoBlock
    THEN <<saturating_sub(t.width, t.block[1].horizontal),
           saturating_sub(t.height, t.block[1].vertical)>>
    ELSE <<t.width, t.height>>

\* self.viewport as one render uses it: the word of its AtomicU64 and the
\* calls the render has made on it so far, in program order.
Cell(u) == [u |-> u, log |-> << >>]

\* self.viewport.scroll_top(): one load of the word.
viewport_scroll_top(c) ==
    [c EXCEPT !.log = Append(@, [op |-> "scroll_top", q |-> scroll_top(c.u),
                                 u |-> c.u])]

\* self.viewport.store(row, col, width, height): one store of the packed word.
viewport_store(c, row, col, width, height) ==
    LET u == store(row, col, width, height)
    IN  [u |-> atomic_store(c.u, u),
         log |-> Append(c.log, [op |-> "store", q |-> <<row, col, width, height>>,
                                u |-> u])]

\* The calls of a log, by name, and its stores.
Ops(log) == [i \in DOMAIN log |-> log[i].op]
Stores(log) == SelectSeq(log, LAMBDA e : e.op = "store")

\* util::num_digits: the number of decimal digits of i
RECURSIVE num_digits(_)
num_digits(i) == IF i < 10 THEN 1 ELSE 1 + num_digits(i \div 10)

scroll_top_row(t, prev_top, height) ==
    next_scroll_top(prev_top, AsU16(t.cursor[1]), height)

scroll_top_row_panics(t, prev_top, height) ==
    next_scroll_top_panics(prev_top, AsU16(t.cursor[1]), height)

\* The width of the line-number part: digits and two margins.
lnum_width(t) == AsU16(num_digits(Len(t.rows))) + 2

\* The cursor column scroll_top_col passes to next_scroll_top.
adjusted_cursor(t) ==
    LET cursor == AsU16(t.cursor[2])
        lnum == lnum_width(t)
    IN  IF t.lnum
        THEN IF cursor <= lnum THEN AsU16(cursor * 2) ELSE AsU16(cursor + lnum)
        ELSE cursor

scroll_top_col(t, prev_top, width) ==
    next_scroll_top(prev_top, adjusted_cursor(t), width)

scroll_top_col_panics(t, prev_top, width) ==
    \/ /\ t.lnum
       /\ LET cursor == AsU16(t.cursor[2])
              lnum == lnum_width(t)
          IN  IF cursor <= lnum THEN Overflows(cursor * 2)
              ELSE Overflows(cursor + lnum)
    \/ next_scroll_top_panics(prev_top, adjusted_cursor(t), width)

\* text_widget(top_row, height): the lines [top_row, bottom_row) it lays out
text_widget(t, top_row, height) ==
    LET lines_len == Len(t.rows)
        bottom_row == Min(top_row + height, lines_len)
    IN  <<top_row, bottom_row>>

\* bottom_row - top_row underflows and the slice start is past its end.
text_widget_panics(t, top_row, height) ==
    Min(top_row + height, Len(t.rows)) < top_row

\* One render, from the word u of the viewport, of the TextArea t, in a build
\* with overflow checks (checks) or without: the inner rectangle, the offsets
\* it resolves, the horizontal scroll it gives the Paragraph (0: none), the
\* text it lays out (the placeholder, or the lines text_widget takes), whether
\* it panics before the store, by an overflow check (check) or in every build
\* (always), and the viewport it leaves, with the calls it has made on it.
render(u, t, checks) ==
    LET area == inner(t)
        width == area[1]
        height == area[2]
        c1 == viewport_scroll_top(Cell(u))
        prev == scroll_top(u)
        cursor == <<AsU16(t.cursor[1]), AsU16(t.cursor[2])>>
        row1 == scroll_top_row(t, prev[1], height)
        col1 == scroll_top_col(t, prev[2], width)
        top_row == IF t.wrap
                   THEN next_scroll_row_wrapped(row1, cursor[1], height, t.rows)
                   ELSE next_scroll_top(row1, cursor[1], height)
        top_col == IF t.wrap THEN col1
                   ELSE next_scroll_top(col1, cursor[2], width)
        placeholder == t.placeholder /\ t.empty
        check == \/ scroll_top_row_panics(t, prev[1], height)
                 \/ scroll_top_col_panics(t, prev[2], width)
                 \/ IF t.wrap
                    THEN next_scroll_row_wrapped_panics(row1, cursor[1], height, t.rows)
                    ELSE \/ next_scroll_top_panics(row1, cursor[1], height)
                         \/ next_scroll_top_panics(col1, cursor[2], width)
        always == \/ t.wrap /\ next_scroll_row_wrapped_index_panics(
                                   row1, cursor[1], t.rows)
                  \/ ~placeholder /\ text_widget_panics(t, top_row, height)
        panics == always \/ (checks /\ check)
        c2 == IF panics THEN c1
              ELSE viewport_store(c1, top_row, top_col, width, height)
    IN  [prev |-> prev, top_row |-> top_row, top_col |-> top_col,
         width |-> width, height |-> height,
         scroll |-> IF top_col # 0 THEN top_col ELSE 0,
         placeholder |-> placeholder,
         lines |-> IF placeholder THEN << >> ELSE text_widget(t, top_row, height),
         check |-> check, always |-> always, panics |-> panics,
         viewport |-> c2]

---------------------------------------------------------------------------
(* Spec: a TextArea rendered again and again while the application moves   *)
(* the cursor and scrolls the viewport                                     *)

MaxOffset == 2

\* The offsets the application scrolls to: the first and the last of a u16,
\* and i16::MAX, which one call reaches from 0.
OffsetSamples == (0..MaxOffset) \cup {I16Max} \cup ((U16Max - 1)..U16Max)

\* Row counts of the buffers rendered: MaxLines lines, each of a single row
\* or wrapped into more rows than the small rectangles are high.
RenderRowSeqs == SeqsOfLen({1, MaxHeight + 1}, MaxLines)

\* Areas <<width, height>>: empty, small (lower than the buffer and as high
\* as it), and with one side as large as a u16 allows.
AreaSamples ==
    {<<0, 0>>, <<2, MaxHeight - 1>>, <<2, MaxHeight>>, <<U16Max, 2>>, <<2, U16Max>>}

\* An area and the block set: each area without a block, and under a block
\* with all four borders an area that leaves a small inner rectangle and one
\* smaller than the frame.
FrameSamples ==
    {<<area, NoBlock>> : area \in AreaSamples}
        \cup {<<<<4, MaxHeight + 2>>, SomeBlock(2, 2)>>,
              <<<<1, 1>>, SomeBlock(2, 2)>>}

\* Buffers: of MaxLines lines, and of one line, empty or not, with a
\* placeholder text set or not.
BufferSamples ==
    {[rows |-> rows, empty |-> FALSE, placeholder |-> FALSE] : rows \in RenderRowSeqs}
        \cup {[rows |-> <<1>>, empty |-> e, placeholder |-> p] :
                  e \in BOOLEAN, p \in BOOLEAN}

\* Cursor columns: below and above the line-number width, and the last u16.
ColSamples == {0, 2, 4, U16Max}

\* scroll(rows, cols) calls of the application: a step or a whole i16 either
\* way on both axes.
ScrollSamples == {<<d, d>> : d \in {I16Min, 0 - 1, 1, I16Max}}

Init ==
    /\ overflow_checks \in BOOLEAN
    /\ vp = ViewportDefault
    /\ call = NoCall
    /\ \E b \in BufferSamples, wrap \in BOOLEAN, lnum \in BOOLEAN,
          f \in FrameSamples :
           ta = [cursor |-> <<0, 0>>, rows |-> b.rows, wrap |-> wrap, lnum |-> lnum,
                 width |-> f[1][1], height |-> f[1][2], block |-> f[2],
                 placeholder |-> b.placeholder, empty |-> b.empty]
    /\ rd = NoReaders
    /\ written = << >>
    /\ cloned = NoClone

Tag(op, out) == [op |-> op, args |-> << >>, pc |-> "done", out |-> out]

\* No call has panicked: the application is still running.
Running == call.op = "none" \/ call.out # Panicked

\* The application moves the cursor to another line or, the buffer not
\* being empty, another column.
MoveCursor ==
    /\ Running
    /\ \/ \E row \in 0..(Len(ta.rows) - 1) :
              /\ row # ta.cursor[1]
              /\ ta' = [ta EXCEPT !.cursor[1] = row]
       \/ \E col \in ColSamples :
              /\ ~ta.empty
              /\ col # ta.cursor[2]
              /\ ta' = [ta EXCEPT !.cursor[2] = col]
    /\ call' = Tag("move_cursor", Returned(<< >>))
    /\ written' = << >>
    /\ UNCHANGED <<overflow_checks, vp, rd, cloned>>

\* The application scrolls the viewport: Viewport::scroll(rows, cols), to
\* offsets of OffsetSamples.
ScrollBy ==
    /\ Running
    /\ \E d \in ScrollSamples :
           IF overflow_checks /\ scroll_panics(vp, d[1], d[2])
           THEN /\ call' = Tag("scroll", Panicked)
                /\ vp' = vp
           ELSE /\ scroll_top(scroll(vp, d[1], d[2]))[1] \in OffsetSamples
                /\ scroll_top(scroll(vp, d[1], d[2]))[2] \in OffsetSamples
                /\ call' = Tag("scroll", Returned(<< >>))
                /\ vp' = scroll(vp, d[1], d[2])
    /\ written' = << >>
    /\ UNCHANGED <<overflow_checks, ta, rd, cloned>>

\* One render: Widget::render for &TextArea.  The viewport is left as the
\* render leaves it, written keeps the stores the render made, and the call
\* what a render that returns gave the Paragraph (its horizontal scroll and
\* the lines laid out) and its calls on self.viewport in program order.
Render ==
    /\ Running
    /\ LET r == render(vp, ta, overflow_checks)
       IN  /\ call' = Tag("render",
                          IF r.panics THEN Panicked
                          ELSE Returned([scroll |-> r.scroll,
                                         lines |-> r.lines,
                                         accesses |-> Ops(r.viewport.log)]))
           /\ vp' = r.viewport.u
           /\ written' = Stores(r.viewport.log)
    /\ UNCHANGED <<overflow_checks, ta, rd, cloned>>

Next == MoveCursor \/ ScrollBy \/ Render

Spec == Init /\ [][Next]_vars

---------------------------------------------------------------------------
(* SpecRepeat: the rendering loop redraws an unchanged TextArea frame after *)
(* frame, starting from any offset the application has scrolled to.  The    *)
(* loop renders on every frame for as long as no render has panicked,       *)
(* hence the weak fairness of Render.                                       *)

InitRepeat ==
    /\ overflow_checks \in BOOLEAN
    /\ \E o \in OffsetSamples : vp = store(o, o, 0, 0)
    /\ call = NoCall
    /\ \E rows \in RenderRowSeqs, wrap \in BOOLEAN, lnum \in BOOLEAN,
          area \in AreaSamples, col \in ColSamples :
           \E row \in 0..(Len(rows) - 1) :
               ta = [cursor |-> <<row, col>>, rows |-> rows, wrap |-> wrap,
                     lnum |-> lnum, width |-> area[1], height |-> area[2],
                     block |-> NoBlock, placeholder |-> FALSE, empty |-> FALSE]
    /\ rd = NoReaders
    /\ written = << >>
    /\ cloned = NoClone

SpecRepeat == InitRepeat /\ [][Render]_vars /\ WF_vars(Render)

---------------------------------------------------------------------------
(* SpecClone: a Viewport and the Viewport clone() makes of it, each written *)
(* by store and scroll.  A Viewport is a cell holding a word: vp is the     *)
(* cell of the original, and cloned tells which cell the clone is.          *)

\* A clone that is a second handle on the cell of the original.
clone_shared(u) == [cell |-> "shared", u |-> u]

\* Clone for Viewport: Viewport(AtomicU64::new(u)), a new cell holding the
\* word u loaded from the original.
clone(u) == [cell |-> "own", u |-> u]

Targets == {"original", "clone"}

\* The word in the cell of a viewport.
WordOf(target) ==
    IF target = "original" \/ cloned.cell = "shared" THEN vp ELSE cloned.u

\* The cell of the viewport `target` takes the word u; no other cell changes.
WriteWord(target, u) ==
    IF target = "original" \/ cloned.cell = "shared"
    THEN vp' = u /\ cloned' = cloned
    ELSE vp' = vp /\ cloned' = [cloned EXCEPT !.u = u]

CallOn(op, target, out) ==
    [op |-> op, args |-> <<target>>, pc |-> "done", out |-> out]

InitClone ==
    /\ overflow_checks \in BOOLEAN
    /\ vp = ViewportDefault
    /\ call = NoCall
    /\ ta = TextAreaDefault
    /\ rd = NoReaders
    /\ written = << >>
    /\ cloned = NoClone

\* viewport.clone()
CloneViewport ==
    /\ cloned.cell = "none"
    /\ cloned' = clone(vp)
    /\ call' = CallOn("clone", "original", Returned(<< >>))
    /\ UNCHANGED <<overflow_checks, vp, ta, rd, written>>

\* store(row, col, width, height) on the original or on the clone
StoreOn(target) ==
    /\ target = "clone" => cloned.cell # "none"
    /\ \E q \in ConcQuads :
           WriteWord(target, atomic_store(WordOf(target),
                                          store(q[1], q[2], q[3], q[4])))
    /\ call' = CallOn("store", target, Returned(<< >>))
    /\ UNCHANGED <<overflow_checks, ta, rd, written>>

\* scroll(rows, cols) on the original or on the clone, to offsets of
\* OffsetSamples
ScrollOn(target) ==
    /\ target = "clone" => cloned.cell # "none"
    /\ \E d \in ScrollSamples :
           IF overflow_checks /\ scroll_panics(WordOf(target), d[1], d[2])
           THEN /\ call' = CallOn("scroll", target, Panicked)
                /\ UNCHANGED <<vp, cloned>>
           ELSE /\ scroll_top(scroll(WordOf(target), d[1], d[2]))[1] \in OffsetSamples
                /\ scroll_top(scroll(WordOf(target), d[1], d[2]))[2] \in OffsetSamples
                /\ call' = CallOn("scroll", target, Returned(<< >>))
                /\ WriteWord(target, scroll(WordOf(target), d[1], d[2]))
    /\ UNCHANGED <<overflow_checks, ta, rd, written>>

NextClone ==
    \/ CloneViewport
    \/ \E target \in Targets : StoreOn(target)
    \/ \E target \in Targets : ScrollOn(target)

SpecClone == InitClone /\ [][NextClone]_vars

---------------------------------------------------------------------------
(* Claims about the scroll rules, checked under SpecScroll *)

\* The call `op` has returned a value.
HasReturned(op) == call.op = op /\ call.pc = "done" /\ call.out # Panicked
Ret == call.out[1]

\* Lines a..b-1 of the buffer take this many screen rows.
RowsOf(rows, a, b) == SumNat(Slice(rows, a, b))

\* C1: for every previous offset T, cursor C and extent L >= 1, the offset T'
\* returned by next_scroll_top satisfies T' <= C < T' + L.
C1_UnwrappedVisible ==
    HasReturned("next_scroll_top") /\ call.args[3] >= 1
        => Ret <= call.args[2] /\ call.args[2] < Ret + call.args[3]

\* The three-case rule of the specification, over the integers.
ThreeCase(T, C, L) ==
    IF C < T THEN C ELSE IF C >= T + L THEN C + 1 - L ELSE T

\* C5: next_scroll_top equals the three-case reference for every T, C, L:
\* C < T gives C, C >= T + L gives C + 1 - L, otherwise T.  (Stated where the
\* reference is itself a u16, which leaves out only L = 0 with C = 65535.)
C5_ThreeCaseReference ==
    /\ HasReturned("next_scroll_top")
    /\ ThreeCase(call.args[1], call.args[2], call.args[3]) \in 0..U16Max
    => Ret = ThreeCase(call.args[1], call.args[2], call.args[3])

\* The smallest top row in T+1..C from which the first wrapped row of line C is
\* inside a viewport of H rows, C when there is none.
FirstRowTop(T, C, H, rows) ==
    LET ok == {t \in (T + 1)..C : RowsOf(rows, t, C) < H}
    IN  IF ok = {} THEN C ELSE CHOOSE t \in ok : \A u \in ok : t <= u

\* C2: for rows with entries >= 1 and every T, C, H with C >= T, either
\* T' = T and the cursor's line was fully on-screen from T, or T' is the
\* smallest value >= T+1 (capped at C) from which the cursor's first wrapped
\* row is on-screen.
C2_WrappedFirstRowMinimal ==
    HasReturned("next_scroll_row_wrapped") /\ call.args[2] >= call.args[1]
        => LET T == call.args[1]
               C == call.args[2]
               H == call.args[3]
               rows == call.args[4]
           IN  \/ Ret = T /\ RowsOf(rows, T, C + 1) <= H
               \/ Ret = FirstRowTop(T, C, H, rows)

\* C3: for rows with entries >= 1, every H >= 1 and every T, C, the returned top
\* row T' leaves the first wrapped row of the cursor's line inside the
\* viewport: T' <= C and the rows of lines T'..C-1 sum to less than H.
\* (Stated on the inputs whose counts from line T through line C sum to at
\* most 65535, where no sum of the rule leaves the u16 range.)
C3_FirstRowVisible ==
    /\ HasReturned("next_scroll_row_wrapped")
    /\ call.args[3] >= 1
    /\ RowsOf(call.args[4], Min(call.args[1], call.args[2]), call.args[2] + 1) <= U16Max
    => /\ Ret <= call.args[2]
       /\ RowsOf(call.args[4], Ret, call.args[2]) < call.args[3]

\* C4: for every T, C, H and rows with entries >= 1, the wrapped rule never
\* returns a top row greater than the cursor row.
C4_NoOverscroll ==
    HasReturned("next_scroll_row_wrapped") => Ret <= call.args[2]

\* C4 witness: the top was on the cursor's line, which is taller than the
\* viewport, and the rule has kept it there.
C4_Witness ==
    /\ HasReturned("next_scroll_row_wrapped")
    /\ call.args[1] = call.args[2]
    /\ call.args[4][call.args[2] + 1] > call.args[3]
    /\ Ret = call.args[2]


\* The wrapped rule has returned for a cursor at or below the top, on a
\* cursor line that fits the viewport.
FitCase ==
    /\ HasReturned("next_scroll_row_wrapped")
    /\ call.args[1] <= call.args[2]
    /\ call.args[4][call.args[2] + 1] <= call.args[3]

\* The general statement of C16 about the returned top row.
MinimalFullLineFit ==
    LET T == call.args[1]
        C == call.args[2]
        H == call.args[3]
        rows == call.args[4]
    IN  IF RowsOf(rows, T, C + 1) > H
        THEN /\ T < Ret /\ Ret <= C
             /\ RowsOf(rows, Ret, C + 1) <= H
             /\ \A t \in T..(Ret - 1) : RowsOf(rows, t, C + 1) > H
        ELSE Ret = T

\* The wrapped rule has returned on rows=[1,3,1,1], H=3, T=0 and cursor row C.
Scenario(C) ==
    /\ HasReturned("next_scroll_row_wrapped")
    /\ call.args = <<0, C, 3, ScenarioRows>>

\* C16: for rows with entries >= 1 and T <= C with rows[C] <= H, if the rows
\* of lines T..C inclusive exceed H the wrapped rule returns T' with
\* T < T' <= C, the rows of lines T'..C summing to <= H and those of lines
\* t..C to > H for every T <= t < T'; otherwise it returns T.  In particular
\* rows=[1,3,1,1], H=3: (T=0,C=1) -> 0 and (T=0,C=2) -> 2.
C16_FullLineFitAsStated ==
    /\ FitCase => MinimalFullLineFit
    /\ Scenario(1) => Ret = 0
    /\ Scenario(2) => Ret = 2

---------------------------------------------------------------------------
(* Claims about the Viewport, checked under SpecViewport *)

\* The read `op` was made right after the call `after` returned.
ReadAfter(op, after) == call.op = op /\ call.args[1] = after

\* C8: after store(row, col, width, height) an immediate scroll_top() returns
\* (row, col) and rect() returns (row, col, width, height); width is in bits
\* 48-63, height in 32-47, row in 16-31, col in 0-15, and no field leaks.
C8_RoundTrip ==
    /\ call.op = "store"
           => /\ vp[4] = call.args[3]
              /\ vp[3] = call.args[4]
              /\ vp[2] = call.args[1]
              /\ vp[1] = call.args[2]
    /\ ReadAfter("scroll_top", "store")
           => Ret = <<call.args[2][1], call.args[2][2]>>
    /\ ReadAfter("rect", "store") => Ret = call.args[2]

\* C8 witness: rect() has returned a stored quadruple of four different
\* fields, the extreme value 65535 among them.
C8_Witness ==
    /\ ReadAfter("rect", "store")
    /\ Cardinality({Ret[i] : i \in 1..4}) = 4
    /\ U16Max \in {Ret[i] : i \in 1..4}
    /\ 0 \notin {Ret[i] : i \in 1..4}

\* clamp(x, 0, 65535)
Clamp(x) == Max(0, Min(x, U16Max))

\* C9: for every stored (row, col, width, height) and every i16 delta pair,
\* -32768 included, scroll(delta_row, delta_col) sets row to
\* clamp(row + delta_row, 0, 65535) and col to clamp(col + delta_col, 0, 65535)
\* and leaves width and height unchanged.
C9_ScrollSaturates ==
    call.op = "scroll"
        => /\ call.out # Panicked
           /\ rect(vp) = <<Clamp(call.args[1][1] + call.args[2]),
                           Clamp(call.args[1][2] + call.args[3]),
                           call.args[1][3], call.args[1][4]>>

\* C10: position() returns bottom_row >= top_row and right_col >= top_col, and
\* when top + extent - 1 does not exceed 65535 and extent >= 1,
\* bottom_row = top_row + height - 1 and right_col = top_col + width - 1.
C10_PositionBounds ==
    call.op = "position"
        => LET r == rect(vp)
           IN  /\ Ret[1] = r[1] /\ Ret[2] = r[2]
               /\ Ret[3] >= Ret[1] /\ Ret[4] >= Ret[2]
               /\ r[4] >= 1 /\ r[1] + r[4] - 1 <= U16Max
                      => Ret[3] = r[1] + r[4] - 1
               /\ r[3] >= 1 /\ r[2] + r[3] - 1 <= U16Max
                      => Ret[4] = r[2] + r[3] - 1


---------------------------------------------------------------------------
(* Claims about concurrent readers, checked under SpecConc *)

\* The quadruples a read may come from: those of the stores made, and zero.
WrittenQuads == {written[i].q : i \in 1..Len(written)} \cup {<<0, 0, 0, 0>>}

\* What op returns of the quadruple q = (row, col, width, height).
ViewOf(op, q) ==
    CASE op = "scroll_top" -> <<q[1], q[2]>>
      [] op = "rect" -> q
      [] op = "position" -> <<q[1], q[2],
                              Max(q[1], Max(Min(q[1] + q[4], U16Max) - 1, 0)),
                              Max(q[2], Max(Min(q[2] + q[3], U16Max) - 1, 0))>>

\* C7: with one writer calling store and readers calling scroll_top, rect and
\* position, every read returns the fields of exactly one quadruple written by
\* a single store, or of the all-zero initial value.
C7_NoTornRead ==
    \A r \in Readers :
        rd[r].pc = "returned"
            => \E q \in WrittenQuads : rd[r].val = ViewOf(rd[r].op, q)

\* C7 witness: two different quadruples have been stored; one reader has
\* returned the first of them and the other reader the second.
C7_Witness ==
    /\ Len(written) = 2
    /\ written[1].q # written[2].q
    /\ rd["r1"].pc = "returned" /\ rd["r1"].op = "rect"
    /\ rd["r1"].val = written[1].q
    /\ rd["r2"].pc = "returned" /\ rd["r2"].op = "rect"
    /\ rd["r2"].val = written[2].q


---------------------------------------------------------------------------
(* Claims about render, checked under Spec *)

\* This step is a render that reached its store.
RenderStep == call'.op = "render" /\ call'.out # Panicked /\ vars' # vars

\* C6: when wrap mode is enabled, a render leaves the column offset untouched
\* (the scroll_col it stores equals the scroll_col stored before it) and gives
\* the surface no cursor-driven horizontal scroll, for every cursor column,
\* width and gutter setting.  (Stated for the inner widths of at least 1.)
C6_WrapKeepsColumn ==
    [][RenderStep /\ ta.wrap /\ inner(ta)[1] >= 1
           => /\ scroll_top(vp')[2] = scroll_top(vp)[2]
              /\ call'.out[1].scroll = scroll_top(vp)[2]]_vars

\* The calls on the viewport hold exactly one store, after a read.
OneStoreAfterRead(acc) ==
    \E i \in DOMAIN acc :
        /\ acc[i] = "store"
        /\ \A j \in DOMAIN acc : acc[j] = "store" => j = i
        /\ \E j \in 1..(i - 1) : acc[j] = "scroll_top"

\* This step is a render, whether it reaches its store or panics before it.
AnyRenderStep == call'.op = "render" /\ vars' # vars

\* C11: every render makes exactly one write to the viewport, after reading
\* the previous offset; the write stores (top_row, top_col, width, height)
\* with the offsets this render resolved and the extents of the inner
\* rectangle it used (the area less the frame of the block); and only scroll
\* changes the stored offset before the next render reads it.
C11_OneStorePerRender ==
    /\ [][AnyRenderStep
              => LET r == render(vp, ta, overflow_checks)
                 IN  /\ OneStoreAfterRead(Ops(r.viewport.log))
                     /\ Len(written') = 1
                     /\ written'[1].q
                            = <<r.top_row, r.top_col, inner(ta)[1], inner(ta)[2]>>
                     /\ rect(vp') = written'[1].q]_vars
    /\ [][call'.op \notin {"render", "scroll"} => vp' = vp]_vars

\* C14: in wrap mode the top row a render stores is the wrapped rule applied
\* directly to the top row read from the viewport, the cursor row, the inner
\* height and the row counts, cursor lines taller than the viewport included.
\* (Stated for the small rectangles, where no sum leaves the u16 range.)
C14_WrappedFromPrevTop ==
    [][RenderStep /\ ta.wrap /\ inner(ta)[1] >= 1 /\ inner(ta)[2] \in 1..MaxHeight
           => scroll_top(vp')[1]
                  = next_scroll_row_wrapped(scroll_top(vp)[1], AsU16(ta.cursor[1]),
                                            inner(ta)[2], ta.rows)]_vars

\* The cursor column of the claim: with a gutter of width g, 2*c when c <= g
\* and c + g otherwise; without a gutter, c.
GutterColumn(t) ==
    LET c == t.cursor[2]
        g == num_digits(Len(t.rows)) + 2
    IN  IF t.lnum THEN (IF c <= g THEN 2 * c ELSE c + g) ELSE c

\* C15: in non-wrap mode the column offset a render stores is the unwrapped
\* rule applied to (previous column offset, adjusted cursor column, width),
\* the adjusted column being 2*c for c <= g and c + g otherwise under a
\* gutter of width g = digits(lines) + 2, and c without a gutter.  (Stated
\* for the widths and columns between 1 and 65534, where the rule stays
\* within the u16 range.)
C15_GutterAdjusted ==
    [][RenderStep /\ ~ta.wrap
         /\ inner(ta)[1] >= 1 /\ inner(ta)[1] < U16Max /\ ta.cursor[2] < U16Max
           => scroll_top(vp')[2]
                  = ThreeCase(scroll_top(vp)[2], GutterColumn(ta), inner(ta)[1])]_vars

\* C17: for any sequence of scroll calls, cursor moves and non-wrap renders
\* with inner width >= 1 and height >= 1, right after each render the cursor
\* lies inside the stored window: top_row <= cursor_row <= bottom_row and
\* top_col <= cursor_col <= right_col, the bounds those position() returns.
C17_CursorInWindow ==
    HasReturned("render") /\ ~ta.wrap /\ inner(ta)[1] >= 1 /\ inner(ta)[2] >= 1
        => LET p == position(vp)
           IN  /\ p[1] <= ta.cursor[1] /\ ta.cursor[1] <= p[3]
               /\ p[2] <= ta.cursor[2] /\ ta.cursor[2] <= p[4]

\* This step is a render that follows a render with nothing in between, both
\* having reached their store.
SecondRender ==
    /\ call.op = "render" /\ call.out # Panicked
    /\ call'.op = "render" /\ call'.out # Panicked

\* C18: with the cursor, buffer, rectangle, gutter setting and wrap mode
\* unchanged and no scroll in between, a second render stores exactly the
\* (row, col, width, height) the render before it stored, in non-wrap mode and
\* in wrap mode, a cursor line taller than the viewport included.  (Stated
\* for the small rectangles, where no sum leaves the u16 range.)
C18_RenderIdempotent ==
    [][SecondRender /\ inner(ta)[1] >= 1 /\ inner(ta)[2] \in 1..MaxHeight
           => rect(vp') = rect(vp)]_vars

\* This step is a render that no overflow check has stopped.
RenderRuns ==
    /\ call'.op = "render" /\ vars' # vars
    /\ ~(overflow_checks /\ render(vp, ta, overflow_checks).check)

\* C20: for any sequence of scroll calls and renders, wrap or non-wrap, of any
\* height, with the cursor row below the line count, every render slices and
\* indexes the row counts within [0, number of lines) and lays out a line
\* range with top_row <= min(top_row + height, total_lines) <= total_lines,
\* also when scroll has pushed the stored top row past the last line.
C20_IndexSafe ==
    [][RenderRuns
           => LET r == render(vp, ta, overflow_checks)
              IN  /\ ~r.always
                  /\ call'.out # Panicked
                  /\ ~r.placeholder
                         => /\ r.lines[1] <= r.lines[2]
                            /\ r.lines[2] <= Len(ta.rows)]_vars

---------------------------------------------------------------------------
(* Claims about repeated renders, checked under SpecRepeat *)

\* A render of the unchanged TextArea returns and stores the word the
\* viewport already holds.
Settled ==
    LET r == render(vp, ta, overflow_checks)
    IN  /\ ~(r.always \/ (overflow_checks /\ r.check))
        /\ store(r.top_row, r.top_col, r.width, r.height) = vp

\* C19: from any viewport state, repeated renders with unchanged cursor,
\* buffer, rectangle and mode, and no scroll, eventually reach a viewport
\* state that no further render changes, and in that state
\* top_row <= cursor_row.  (Stated for the rectangles of width >= 1 and
\* height >= 1, in a build without overflow checks, where no render panics.)
C19_Converges ==
    <>[](inner(ta)[1] >= 1 /\ inner(ta)[2] >= 1 /\ ~overflow_checks
             => Settled /\ scroll_top(vp)[1] <= ta.cursor[1])

---------------------------------------------------------------------------
(* Arithmetic of the scroll rules, checked under SpecScroll *)

\* C12: for all 16-bit inputs, every arithmetic step of the unwrapped rule
\* and of the wrapped rule stays within 0..65535, so that no call panics and
\* none wraps around.
C12_NoOverflow ==
    call.pc = "done"
        => /\ call.out # Panicked
           /\ call.op = "next_scroll_top"
                  => ~next_scroll_top_panics(call.args[1], call.args[2], call.args[3])
           /\ call.op = "next_scroll_row_wrapped"
                  => ~next_scroll_row_wrapped_panics(call.args[1], call.args[2],
                                                     call.args[3], call.args[4])

---------------------------------------------------------------------------
(* Claims about clone(), checked under SpecClone *)

\* The step is a store or a scroll on the viewport `target`, a clone existing.
WriteOn(target) ==
    /\ cloned.cell # "none"
    /\ call'.op \in {"store", "scroll"}
    /\ call'.args = <<target>>

\* C13: a cloned Viewport holds exactly the quadruple the original held when
\* it was cloned, the original being left as it was; afterwards a store or a
\* scroll on one of the two leaves the quadruple of the other unchanged.
C13_CloneIndependent ==
    [][/\ cloned.cell = "none" /\ cloned'.cell # "none"
              => rect(WordOf("clone"))' = rect(vp) /\ vp' = vp
       /\ WriteOn("original") => rect(WordOf("clone"))' = rect(WordOf("clone"))
       /\ WriteOn("clone") => rect(vp') = rect(vp)]_vars

\* C13 witness: the original has been scrolled after the clone was made, and
\* the clone holds another quadruple, one that a store had written.
C13_Witness ==
    /\ cloned.cell # "none"
    /\ call = CallOn("scroll", "original", Returned(<< >>))
    /\ rect(WordOf("clone")) \in ConcQuads
    /\ rect(WordOf("clone")) # rect(vp)

============================================================================
